---- MODULE Spec2Model ----
(***************************************************************************)
(* The scenario codec of the Little's Law simulator (utils/codec): the     *)
(* bit stream writer and reader, the base64url text transform, and         *)
(* generateScenarioCode / parseScenarioCode, together with the two places  *)
(* of SettingsModal that call them (the generate effect and the validate   *)
(* effect on the input box).                                               *)
(*                                                                         *)
(* A bit string is a sequence over {0, 1}; a text is a sequence of         *)
(* one-character strings.  An operation that can throw returns a record    *)
(* with a field threw.                                                     *)
(***************************************************************************)
EXTENDS Integers, Sequences, FiniteSets, TLC

VARIABLES steps, timeUnit, code, parsed, raised, first, orig, edits, pc,
          wbits, fields, rd, vals, bpc,
          tBinary, tText, tOut, tpc,
          isOpen, pendingUnit, lastOp, calls

\* a BitWriter, the fields written to it, a BitReader over its data and the
\* values read
bitVars == <<wbits, fields, rd, vals, bpc>>
\* the arguments and results of the two base64 functions
textVars == <<tBinary, tText, tOut, tpc>>
\* SettingsModal's time-unit confirmation: isOpen, pendingUnit, the handler
\* that ran last and the props it called
modalVars == <<isOpen, pendingUnit, lastOp, calls>>

vars == <<steps, timeUnit, code, parsed, raised, first, orig, edits, pc,
          wbits, fields, rd, vals, bpc,
          tBinary, tText, tOut, tpc,
          isOpen, pendingUnit, lastOp, calls>>

----------------------------------------------------------------------------
(* Constants of the format *)

MIN_STEPS == 2
MAX_STEPS == 5

VERSION == 1

CHARS ==
  << "A","B","C","D","E","F","G","H","I","J","K","L","M","N","O","P",
     "Q","R","S","T","U","V","W","X","Y","Z","a","b","c","d","e","f",
     "g","h","i","j","k","l","m","n","o","p","q","r","s","t","u","v",
     "w","x","y","z","0","1","2","3","4","5","6","7","8","9","-","_" >>

\* the characters of the dictionary
CharSet == {CHARS[i] : i \in DOMAIN CHARS}

TimeUnits == {"Seconds", "Minutes", "Hours"}

\* unitMap of generateScenarioCode
unitMap == [u \in TimeUnits |->
              CASE u = "Seconds" -> 0 [] u = "Minutes" -> 1 [] u = "Hours" -> 2]

timeUnits_swapped == << "Minutes", "Seconds", "Hours" >>

\* timeUnits of parseScenarioCode (a JS array, index 0 first)
timeUnits == << "Seconds", "Minutes", "Hours" >>

\* JS array indexing: an index past the end yields undefined
ArrayAt(arr, i) == IF i + 1 \in DOMAIN arr THEN arr[i + 1] ELSE "undefined"

\* the characters /\s/ and trim() remove
WhitespaceChars == {" ", "\t", "\n", "\r"}

NULL == [kind |-> "null"]

Min(a, b) == IF a < b THEN a ELSE b
Max(a, b) == IF a > b THEN a ELSE b

----------------------------------------------------------------------------
(* BitWriter *)

RECURSIVE ToBinary(_)
\* value.toString(2) of a non-negative integer
ToBinary(value) ==
  IF value < 2 THEN << value >>
  ELSE ToBinary(value \div 2) \o << value % 2 >>

\* binary.slice(0, width): the highest bits instead of the lowest
SliceLast_first(s, width) ==
  IF Len(s) > width THEN SubSeq(s, 1, width) ELSE s

\* binary.slice(-width)
SliceLast(s, width) ==
  IF Len(s) > width THEN SubSeq(s, Len(s) - width + 1, Len(s)) ELSE s

RECURSIVE PadLeft(_, _)
\* while (binary.length < width) binary = "0" + binary
PadLeft(binary, width) ==
  IF Len(binary) < width THEN PadLeft(<< 0 >> \o binary, width) ELSE binary

\* BitWriter.write: the writer's bits after write(value, width)
BitWriter_write(bits, value, width) ==
  LET binary  == ToBinary(value)
      clipped == IF Len(binary) > width THEN SliceLast(binary, width) ELSE binary
  IN  bits \o PadLeft(clipped, width)

\* BitWriter.getData
BitWriter_getData(bits) == bits

----------------------------------------------------------------------------
(* BitReader *)

RECURSIVE ParseInt2(_)
\* parseInt(chunk, 2) of a non-empty string of binary digits
ParseInt2(chunk) ==
  IF Len(chunk) = 0 THEN 0
  ELSE 2 * ParseInt2(SubSeq(chunk, 1, Len(chunk) - 1)) + chunk[Len(chunk)]

\* new BitReader(bits)
BitReader(bits) == [bits |-> bits, pointer |-> 0]

\* BitReader.read as it would be if missing bits were read as zeros
BitReader_read_padding(reader, width) ==
  LET avail == Min(reader.pointer + width, Len(reader.bits))
      chunk == SubSeq(reader.bits, reader.pointer + 1, avail)
      pad   == [i \in 1..(width - Len(chunk)) |-> 0]
  IN  [threw |-> FALSE, value |-> ParseInt2(chunk \o pad),
       reader |-> [reader EXCEPT !.pointer = @ + width]]

\* BitReader.read: throws when fewer than width bits remain
BitReader_read(reader, width) ==
  IF reader.pointer + width > Len(reader.bits)
  THEN [threw |-> TRUE, value |-> 0, reader |-> reader]
  ELSE [threw |-> FALSE,
        value |-> ParseInt2(SubSeq(reader.bits, reader.pointer + 1,
                                   reader.pointer + width)),
        reader |-> [reader EXCEPT !.pointer = @ + width]]

----------------------------------------------------------------------------
(* Base64URL transform *)

\* CHARS.indexOf(char): -1 when the character is not in the dictionary
IndexOf(char) ==
  IF \E i \in DOMAIN CHARS : CHARS[i] = char
  THEN (CHOOSE i \in DOMAIN CHARS : CHARS[i] = char) - 1
  ELSE -1

RECURSIVE PadRight6_left(_)
\* the padding loop with binary = "0" + binary
PadRight6_left(binary) ==
  IF Len(binary) % 6 # 0 THEN PadRight6_left(<< 0 >> \o binary) ELSE binary

RECURSIVE PadRight6(_)
\* while (binary.length % 6 !== 0) binary += "0"
PadRight6(binary) ==
  IF Len(binary) % 6 # 0 THEN PadRight6(binary \o << 0 >>) ELSE binary

RECURSIVE Segments(_, _)
\* the loop of binaryStringToBase64 from index i (0-based)
Segments(binary, i) ==
  IF i < Len(binary)
  THEN << CHARS[ParseInt2(SubSeq(binary, i + 1, i + 6)) + 1] >>
         \o Segments(binary, i + 6)
  ELSE << >>

binaryStringToBase64(binary) == Segments(PadRight6(binary), 0)

RECURSIVE base64ToBinaryString_skipping(_)
\* base64ToBinaryString as it would be if unknown characters were skipped
base64ToBinaryString_skipping(base64) ==
  IF Len(base64) = 0 THEN [threw |-> FALSE, bits |-> << >>]
  ELSE LET index == IndexOf(base64[1])
           rest  == base64ToBinaryString_skipping(Tail(base64))
       IN  IF index = -1 THEN rest
           ELSE [threw |-> FALSE,
                 bits |-> PadLeft(ToBinary(index), 6) \o rest.bits]

RECURSIVE base64ToBinaryString_prepending(_)
\* base64ToBinaryString with binary = segment + binary: the last character's
\* bits come first
base64ToBinaryString_prepending(base64) ==
  IF Len(base64) = 0 THEN [threw |-> FALSE, bits |-> << >>]
  ELSE LET index == IndexOf(base64[1])
       IN  IF index = -1 THEN [threw |-> TRUE, bits |-> << >>]
           ELSE LET rest == base64ToBinaryString_prepending(Tail(base64))
                IN  IF rest.threw THEN rest
                    ELSE [threw |-> FALSE,
                          bits |-> rest.bits \o PadLeft(ToBinary(index), 6)]

RECURSIVE base64ToBinaryString(_)
\* base64ToBinaryString: throws on a character outside CHARS
base64ToBinaryString(base64) ==
  IF Len(base64) = 0 THEN [threw |-> FALSE, bits |-> << >>]
  ELSE LET index == IndexOf(base64[1])
       IN  IF index = -1 THEN [threw |-> TRUE, bits |-> << >>]
           ELSE LET rest == base64ToBinaryString(Tail(base64))
                IN  IF rest.threw THEN rest
                    ELSE [threw |-> FALSE,
                          bits |-> PadLeft(ToBinary(index), 6) \o rest.bits]

----------------------------------------------------------------------------
(* Scenario logic: generateScenarioCode *)

\* Math.min(Math.max(steps.length, MIN_STEPS), MAX_STEPS)
clampedCount(ss) == Min(Max(Len(ss), MIN_STEPS), MAX_STEPS)

\* steps[0]?.batchSize || 10 : an absent first step and a batch size of 0 are
\* both falsy and give the default
firstBatchSize(ss) ==
  IF Len(ss) = 0 THEN 10
  ELSE IF ss[1].batchSize = 0 THEN 10 ELSE ss[1].batchSize

\* steps[0]?.isBatchLocked ? 1 : 0
firstBatchLocked(ss) ==
  IF Len(ss) = 0 THEN 0 ELSE IF ss[1].isBatchLocked THEN 1 ELSE 0

Bit(b) == IF b THEN 1 ELSE 0

\* the four writes of one step (the body of steps.forEach)
writeStep(bits, step) ==
  LET b1 == BitWriter_write(bits, Min(step.cycleTime, 31), 5)
      b2 == BitWriter_write(b1, Min(step.setupTime, 127), 7)
      b3 == BitWriter_write(b2, Bit(step.isCycleLocked), 1)
  IN  BitWriter_write(b3, Bit(step.isSetupLocked), 1)

RECURSIVE writeSteps(_, _)
\* steps.forEach(...): every element of steps, whatever the clamped count
writeSteps(bits, ss) ==
  IF Len(ss) = 0 THEN bits ELSE writeSteps(writeStep(bits, Head(ss)), Tail(ss))

\* the bits written by generateScenarioCode before the text transform
scenarioBits(ss, unit) ==
  LET b1 == BitWriter_write(<< >>, VERSION, 2)
      b2 == BitWriter_write(b1, unitMap[unit], 2)
      b3 == BitWriter_write(b2, clampedCount(ss) - MIN_STEPS, 2)
      b4 == BitWriter_write(b3, Min(firstBatchSize(ss), 63), 6)
      b5 == BitWriter_write(b4, firstBatchLocked(ss), 1)
  IN  BitWriter_getData(writeSteps(b5, ss))

generateScenarioCode(ss, unit) == binaryStringToBase64(scenarioBits(ss, unit))

----------------------------------------------------------------------------
(* Scenario logic: parseScenarioCode *)

RECURSIVE TrimLeft(_)
TrimLeft(s) ==
  IF Len(s) > 0 /\ s[1] \in WhitespaceChars THEN TrimLeft(Tail(s)) ELSE s

RECURSIVE TrimRight(_)
TrimRight(s) ==
  IF Len(s) > 0 /\ s[Len(s)] \in WhitespaceChars
  THEN TrimRight(SubSeq(s, 1, Len(s) - 1)) ELSE s

\* String.prototype.trim
Trim(s) == TrimRight(TrimLeft(s))

\* s.replace(/\s/g, '')
StripWhitespace(s) == SelectSeq(s, LAMBDA c : c \notin WhitespaceChars)

versionSupported_any(version) == TRUE

\* if (version !== 1) return null
versionSupported(version) == version = VERSION

unitInRange_upto3(unitVal) == ~(unitVal > 3)

\* if (unitVal > 2) return null
unitInRange(unitVal) == ~(unitVal > 2)

loopContinues_inclusive(i, stepCount) == i <= stepCount

\* the condition of for (let i = 0; i < stepCount; i++)
loopContinues(i, stepCount) == i < stepCount

RECURSIVE readSteps(_, _, _, _)
\* the for loop of parseScenarioCode; a throwing read ends it
readSteps(reader, i, stepCount, stepsData) ==
  IF ~loopContinues(i, stepCount)
  THEN [threw |-> FALSE, stepsData |-> stepsData]
  ELSE
    LET r1 == BitReader_read(reader, 5) IN
    IF r1.threw THEN [threw |-> TRUE, stepsData |-> stepsData] ELSE
    LET r2 == BitReader_read(r1.reader, 7) IN
    IF r2.threw THEN [threw |-> TRUE, stepsData |-> stepsData] ELSE
    LET r3 == BitReader_read(r2.reader, 1) IN
    IF r3.threw THEN [threw |-> TRUE, stepsData |-> stepsData] ELSE
    LET r4 == BitReader_read(r3.reader, 1) IN
    IF r4.threw THEN [threw |-> TRUE, stepsData |-> stepsData] ELSE
    readSteps(r4.reader, i + 1, stepCount,
              Append(stepsData,
                     [cycleTime |-> r1.value, setupTime |-> r2.value,
                      isCycleLocked |-> (r3.value = 1),
                      isSetupLocked |-> (r4.value = 1)]))

Thrown == [threw |-> TRUE, value |-> NULL]
Returned(v) == [threw |-> FALSE, value |-> v]

\* the body of the try block of parseScenarioCode: what it returns, or that
\* it threw
parseTry(s) ==
  LET cleanCode == StripWhitespace(Trim(s)) IN
  IF Len(cleanCode) = 0 THEN Returned(NULL) ELSE
  LET binary == base64ToBinaryString(cleanCode) IN
  IF binary.threw THEN Thrown ELSE
  LET version == BitReader_read(BitReader(binary.bits), 2) IN
  IF version.threw THEN Thrown ELSE
  IF ~versionSupported(version.value) THEN Returned(NULL) ELSE
  LET unitVal == BitReader_read(version.reader, 2) IN
  IF unitVal.threw THEN Thrown ELSE
  IF ~unitInRange(unitVal.value) THEN Returned(NULL) ELSE
  LET countOffset == BitReader_read(unitVal.reader, 2) IN
  IF countOffset.threw THEN Thrown ELSE
  LET globalBatchSize == BitReader_read(countOffset.reader, 6) IN
  IF globalBatchSize.threw THEN Thrown ELSE
  LET globalBatchLocked == BitReader_read(globalBatchSize.reader, 1) IN
  IF globalBatchLocked.threw THEN Thrown ELSE
  LET stepsData == readSteps(globalBatchLocked.reader, 0,
                             countOffset.value + MIN_STEPS, << >>) IN
  IF stepsData.threw THEN Thrown ELSE
  Returned([kind |-> "config",
            timeUnit |-> ArrayAt(timeUnits, unitVal.value),
            globalBatchSize |-> globalBatchSize.value,
            globalBatchLocked |-> (globalBatchLocked.value = 1),
            steps |-> stepsData.stepsData])

parseScenarioCode_nocatch(s) == parseTry(s)

\* parseScenarioCode: catch (e) { return null }
parseScenarioCode(s) ==
  LET r == parseTry(s) IN IF r.threw THEN Returned(NULL) ELSE r

----------------------------------------------------------------------------
(* Bounds and inputs *)

\* steps are added freely up to MaxVariedSteps and by duplication of the
\* last step up to MaxInputSteps
MaxVariedSteps == 2
MaxInputSteps == 6
\* the number of characters of a pasted token that are edited by hand
MaxEdits == 1

Step(ct, st, cl, sl, bs, bl) ==
  [cycleTime |-> ct, setupTime |-> st, isCycleLocked |-> cl,
   isSetupLocked |-> sl, batchSize |-> bs, isBatchLocked |-> bl]

\* the steps the encoder is given: typical values, the largest values of
\* each field, zeros, one field out of range, every field out of range
StepPool ==
  { Step(5, 10, FALSE, TRUE, 10, FALSE),
    Step(31, 127, TRUE, FALSE, 63, TRUE),
    Step(0, 0, FALSE, FALSE, 0, FALSE),
    Step(40, 20, TRUE, FALSE, 10, FALSE),
    Step(99, 200, TRUE, TRUE, 70, TRUE) }

\* the scenarios whose generated code is pasted into the input box
BaseSteps ==
  << Step(5, 10, FALSE, TRUE, 10, FALSE),
     Step(31, 127, TRUE, TRUE, 63, TRUE),
     Step(3, 20, TRUE, FALSE, 10, FALSE),
     Step(0, 0, FALSE, FALSE, 1, FALSE),
     Step(17, 64, FALSE, TRUE, 50, TRUE),
     Step(9, 33, TRUE, FALSE, 20, FALSE) >>

\* characters typed over a character of the token: "A" is version 0, "Q" is
\* version 1 with 2 steps, "T" version 1 with 5 steps, "c" version 1 with
\* time-unit index 3, "_" is all ones, "!" is outside the dictionary
OverwriteChars == {"A", "Q", "T", "c", "_", "!"}
\* characters inserted into the token: whitespace and the padding character
\* of ordinary base64
InsertChars == {" ", "="}

----------------------------------------------------------------------------
(* SettingsModal: the generate effect and the validate effect *)

\* useEffect on inputCode: parse the trimmed input, or null when it is empty
validateInput(inputCode) ==
  IF Len(Trim(inputCode)) > 0
  THEN parseScenarioCode(Trim(inputCode))
  ELSE Returned(NULL)

\* the StepParameters handed back to the encoder from a decoded scenario
stepsOfScenario(d) ==
  [i \in 1..Len(d.steps) |->
     Step(d.steps[i].cycleTime, d.steps[i].setupTime,
          d.steps[i].isCycleLocked, d.steps[i].isSetupLocked,
          d.globalBatchSize, d.globalBatchLocked)]

----------------------------------------------------------------------------
(* Initial values of the parts a specification does not use *)

BitsIdle ==
  /\ wbits = << >>
  /\ fields = << >>
  /\ rd = BitReader(<< >>)
  /\ vals = << >>
  /\ bpc = "writing"

TextIdle ==
  /\ tBinary = << >>
  /\ tText = << >>
  /\ tOut = << >>
  /\ tpc = "start"

ModalIdle ==
  /\ isOpen = FALSE
  /\ pendingUnit = "null"
  /\ lastOp = [op |-> "none", arg |-> "null"]
  /\ calls = << >>

----------------------------------------------------------------------------
(* Encode path: steps are edited, encoded, decoded, and the decoded         *)
(* scenario is encoded and decoded again                                    *)

Init ==
  /\ steps = << >>
  /\ timeUnit \in TimeUnits
  /\ code = << >>
  /\ parsed = NULL
  /\ raised = FALSE
  /\ first = NULL
  /\ orig = << >>
  /\ edits = 0
  /\ pc = "edit"
  /\ BitsIdle /\ TextIdle /\ ModalIdle

AddStep(s) ==
  /\ pc = "edit"
  /\ Len(steps) < MaxVariedSteps
  /\ steps' = Append(steps, s)
  /\ UNCHANGED <<timeUnit, code, parsed, raised, first, orig, edits, pc>>
  /\ UNCHANGED <<bitVars, textVars, modalVars>>

DuplicateStep ==
  /\ pc = "edit"
  /\ Len(steps) >= 1
  /\ Len(steps) < MaxInputSteps
  /\ steps' = Append(steps, steps[Len(steps)])
  /\ UNCHANGED <<timeUnit, code, parsed, raised, first, orig, edits, pc>>
  /\ UNCHANGED <<bitVars, textVars, modalVars>>

Encode ==
  /\ pc = "edit"
  /\ code' = generateScenarioCode(steps, timeUnit)
  /\ pc' = "encoded"
  /\ UNCHANGED <<steps, timeUnit, parsed, raised, first, orig, edits>>
  /\ UNCHANGED <<bitVars, textVars, modalVars>>

Decode ==
  /\ pc \in {"encoded", "reencoded"}
  /\ LET r == parseScenarioCode(code)
     IN  parsed' = r.value /\ raised' = r.threw
  /\ pc' = IF pc = "encoded" THEN "decoded" ELSE "redecoded"
  /\ UNCHANGED <<steps, timeUnit, code, first, orig, edits>>
  /\ UNCHANGED <<bitVars, textVars, modalVars>>

ReEncode ==
  /\ pc = "decoded"
  /\ parsed # NULL
  /\ first' = parsed
  /\ code' = generateScenarioCode(stepsOfScenario(parsed), parsed.timeUnit)
  /\ pc' = "reencoded"
  /\ UNCHANGED <<steps, timeUnit, parsed, raised, orig, edits>>
  /\ UNCHANGED <<bitVars, textVars, modalVars>>

Next ==
  \/ \E s \in StepPool : AddStep(s)
  \/ DuplicateStep
  \/ Encode
  \/ Decode
  \/ ReEncode

Spec == Init /\ [][Next]_vars

----------------------------------------------------------------------------
(* Decode path: a generated code is pasted into the input box and edited    *)
(* by hand; every change of the input runs the validate effect              *)

TokInit ==
  /\ steps = << >>
  /\ timeUnit = "Seconds"
  /\ code = << >>
  /\ parsed = NULL
  /\ raised = FALSE
  /\ first = NULL
  /\ orig = << >>
  /\ edits = 0
  /\ pc = "empty"
  /\ BitsIdle /\ TextIdle /\ ModalIdle

\* setInputCode(text) followed by the validate effect
SetInputCode(text) ==
  /\ code' = text
  /\ LET r == validateInput(text)
     IN  parsed' = r.value /\ raised' = r.threw

Paste(n) ==
  /\ pc = "empty"
  /\ steps' = SubSeq(BaseSteps, 1, n)
  /\ timeUnit' = ArrayAt(timeUnits, n % 3)
  /\ SetInputCode(generateScenarioCode(steps', timeUnit'))
  /\ pc' = "input"
  /\ UNCHANGED <<first, orig, edits>>
  /\ UNCHANGED <<bitVars, textVars, modalVars>>

Overwrite(i, ch) ==
  /\ pc = "input"
  /\ edits < MaxEdits
  /\ code[i] # ch
  /\ SetInputCode([code EXCEPT ![i] = ch])
  /\ edits' = edits + 1
  /\ UNCHANGED <<steps, timeUnit, first, orig, pc>>
  /\ UNCHANGED <<bitVars, textVars, modalVars>>

Insert(i, ch) ==
  /\ pc = "input"
  /\ edits < MaxEdits
  /\ SetInputCode(SubSeq(code, 1, i) \o << ch >> \o SubSeq(code, i + 1, Len(code)))
  /\ edits' = edits + 1
  /\ UNCHANGED <<steps, timeUnit, first, orig, pc>>
  /\ UNCHANGED <<bitVars, textVars, modalVars>>

Truncate ==
  /\ pc \in {"input", "truncated"}
  /\ Len(code) > 0
  /\ orig' = IF pc = "input" THEN code ELSE orig
  /\ SetInputCode(SubSeq(code, 1, Len(code) - 1))
  /\ pc' = "truncated"
  /\ UNCHANGED <<steps, timeUnit, first, edits>>
  /\ UNCHANGED <<bitVars, textVars, modalVars>>

TokNext ==
  \/ \E n \in MIN_STEPS..MAX_STEPS : Paste(n)
  \/ \E i \in 1..Len(code), ch \in OverwriteChars : Overwrite(i, ch)
  \/ \E i \in 0..Len(code), ch \in InsertChars : Insert(i, ch)
  \/ Truncate

SpecTok == TokInit /\ [][TokNext]_vars

----------------------------------------------------------------------------
(* Bit stream: fields are written to a BitWriter, getData hands the bits    *)
(* to a BitReader, and the fields are read back in the same order           *)

\* the number of fields written to one writer
MaxFields == 3

\* values written: zero, a small value, a value wider than every width
FieldValues == {0, 5, 200}
\* widths of the format's fields: a flag, a cycle time, a setup time
FieldWidths == {1, 5, 7}

CodecIdle ==
  /\ steps = << >>
  /\ timeUnit = "Seconds"
  /\ code = << >>
  /\ parsed = NULL
  /\ raised = FALSE
  /\ first = NULL
  /\ orig = << >>
  /\ edits = 0
  /\ pc = "idle"

BitsInit == CodecIdle /\ BitsIdle /\ TextIdle /\ ModalIdle

\* writer.write(value, width)
Write(value, width) ==
  /\ bpc = "writing"
  /\ Len(fields) < MaxFields
  /\ wbits' = BitWriter_write(wbits, value, width)
  /\ fields' = Append(fields, [value |-> value, width |-> width])
  /\ UNCHANGED <<rd, vals, bpc>>
  /\ UNCHANGED <<steps, timeUnit, code, parsed, raised, first, orig, edits, pc>>
  /\ UNCHANGED <<textVars, modalVars>>

\* new BitReader(writer.getData())
GetData ==
  /\ bpc = "writing"
  /\ rd' = BitReader(BitWriter_getData(wbits))
  /\ bpc' = "reading"
  /\ UNCHANGED <<wbits, fields, vals>>
  /\ UNCHANGED <<steps, timeUnit, code, parsed, raised, first, orig, edits, pc>>
  /\ UNCHANGED <<textVars, modalVars>>

\* reader.read(width) with the width of the next field; -1 stands for a throw
Read ==
  /\ bpc = "reading"
  /\ Len(vals) < Len(fields)
  /\ LET r == BitReader_read(rd, fields[Len(vals) + 1].width)
     IN  /\ rd' = r.reader
         /\ vals' = Append(vals, IF r.threw THEN -1 ELSE r.value)
  /\ UNCHANGED <<wbits, fields, bpc>>
  /\ UNCHANGED <<steps, timeUnit, code, parsed, raised, first, orig, edits, pc>>
  /\ UNCHANGED <<textVars, modalVars>>

BitsNext ==
  \/ \E value \in FieldValues, width \in FieldWidths : Write(value, width)
  \/ GetData
  \/ Read

SpecBits == BitsInit /\ [][BitsNext]_vars

----------------------------------------------------------------------------
(* Base64 transform: a bit string is turned into text and back, and a text  *)
(* into bits and back                                                       *)

\* the length of the bit strings and of the texts given to the transform
MaxBits == 7
MaxChars == 3

\* characters of the dictionary: the first, the last, and some in between
SampleChars == {"A", "Q", "k", "9", "_"}

TextInit == CodecIdle /\ BitsIdle /\ TextIdle /\ ModalIdle

AppendBit(b) ==
  /\ tpc \in {"start", "bits"}
  /\ Len(tBinary) < MaxBits
  /\ tBinary' = Append(tBinary, b)
  /\ tpc' = "bits"
  /\ UNCHANGED <<tText, tOut>>
  /\ UNCHANGED <<steps, timeUnit, code, parsed, raised, first, orig, edits, pc>>
  /\ UNCHANGED <<bitVars, modalVars>>

AppendChar(ch) ==
  /\ tpc \in {"start", "chars"}
  /\ Len(tText) < MaxChars
  /\ tText' = Append(tText, ch)
  /\ tpc' = "chars"
  /\ UNCHANGED <<tBinary, tOut>>
  /\ UNCHANGED <<steps, timeUnit, code, parsed, raised, first, orig, edits, pc>>
  /\ UNCHANGED <<bitVars, modalVars>>

\* binaryStringToBase64 of the bit string given, or of the bits a text gave
ToBase64 ==
  /\ \/ /\ tpc \in {"start", "bits"}
        /\ tText' = binaryStringToBase64(tBinary)
        /\ tpc' = "bitsText"
        /\ UNCHANGED tOut
     \/ /\ tpc = "charsBits"
        /\ tOut' = binaryStringToBase64(tBinary)
        /\ tpc' = "charsDone"
        /\ UNCHANGED tText
  /\ UNCHANGED tBinary
  /\ UNCHANGED <<steps, timeUnit, code, parsed, raised, first, orig, edits, pc>>
  /\ UNCHANGED <<bitVars, modalVars>>

\* base64ToBinaryString of the text given, or of the text a bit string gave;
\* << -1 >> stands for a throw
FromBase64 ==
  /\ LET r == base64ToBinaryString(tText)
         b == IF r.threw THEN << -1 >> ELSE r.bits
     IN  \/ /\ tpc = "bitsText"
            /\ tOut' = b
            /\ tpc' = "bitsDone"
            /\ UNCHANGED tBinary
         \/ /\ tpc = "chars"
            /\ tBinary' = b
            /\ tpc' = "charsBits"
            /\ UNCHANGED tOut
  /\ UNCHANGED tText
  /\ UNCHANGED <<steps, timeUnit, code, parsed, raised, first, orig, edits, pc>>
  /\ UNCHANGED <<bitVars, modalVars>>

TextNext ==
  \/ \E b \in {0, 1} : AppendBit(b)
  \/ \E ch \in SampleChars : AppendChar(ch)
  \/ ToBase64
  \/ FromBase64

SpecText == TextInit /\ [][TextNext]_vars

----------------------------------------------------------------------------
(* Trailing content: a generated code is pasted, its last character may be  *)
(* retyped, and characters of the dictionary are typed after it             *)

\* the number of characters typed after the token
MaxAppended == 2

\* characters typed after a token: all zeros, mixed, all ones
AppendChars == {"A", "k", "_"}

TypeAfter(ch) ==
  /\ pc \in {"input", "appended"}
  /\ Len(code) - (IF pc = "input" THEN Len(code) ELSE Len(orig)) < MaxAppended
  /\ orig' = IF pc = "input" THEN code ELSE orig
  /\ SetInputCode(Append(code, ch))
  /\ pc' = "appended"
  /\ UNCHANGED <<steps, timeUnit, first, edits>>
  /\ UNCHANGED <<bitVars, textVars, modalVars>>

TailNext ==
  \/ \E n \in MIN_STEPS..Len(BaseSteps) : Paste(n)
  \/ \E ch \in CharSet : Overwrite(Len(code), ch)
  \/ \E ch \in AppendChars : TypeAfter(ch)

SpecTail == TokInit /\ [][TailNext]_vars

----------------------------------------------------------------------------
(* SettingsModal: changing the time unit asks for confirmation.  The modal  *)
(* is opened and closed by its parent; while it is open the radio buttons   *)
(* call handleUnitChange and the overlay's buttons confirmChange and        *)
(* cancelChange.  pendingUnit is "null" when no unit is pending.            *)

Call(fn, arg) == [fn |-> fn, arg |-> arg]
Op(op, arg) == [op |-> op, arg |-> arg]

\* the parent's props: a list of steps and a time unit; generatedCode is ''
ModalInit ==
  /\ steps \in {SubSeq(BaseSteps, 1, n) : n \in MIN_STEPS..MAX_STEPS}
  /\ timeUnit \in TimeUnits
  /\ code = << >>
  /\ parsed = NULL
  /\ raised = FALSE
  /\ first = NULL
  /\ orig = << >>
  /\ edits = 0
  /\ pc = "idle"
  /\ BitsIdle /\ TextIdle /\ ModalIdle

\* the parent sets isOpen; the effect on [isOpen, steps, timeUnit] then
\* stores the generated code
OpenModal ==
  /\ ~isOpen
  /\ isOpen' = TRUE
  /\ lastOp' = Op("open", "null")
  /\ calls' = << >>
  /\ code' = generateScenarioCode(steps, timeUnit)
  /\ UNCHANGED pendingUnit
  /\ UNCHANGED <<steps, timeUnit, parsed, raised, first, orig, edits, pc>>
  /\ UNCHANGED <<bitVars, textVars>>

\* onClose: the parent clears isOpen; the component stays mounted
CloseModal ==
  /\ isOpen
  /\ isOpen' = FALSE
  /\ lastOp' = Op("close", "null")
  /\ calls' = << Call("onClose", "null") >>
  /\ UNCHANGED pendingUnit
  /\ UNCHANGED <<steps, timeUnit, code, parsed, raised, first, orig, edits, pc>>
  /\ UNCHANGED <<bitVars, textVars>>

handleUnitChange_unguarded(unit) ==
  /\ isOpen
  /\ pendingUnit' = unit
  /\ lastOp' = Op("handleUnitChange", unit)
  /\ calls' = << >>
  /\ UNCHANGED isOpen
  /\ UNCHANGED <<steps, timeUnit, code, parsed, raised, first, orig, edits, pc>>
  /\ UNCHANGED <<bitVars, textVars>>

handleUnitChange(unit) ==
  /\ isOpen
  /\ pendingUnit' = IF unit = timeUnit THEN pendingUnit ELSE unit
  /\ lastOp' = Op("handleUnitChange", unit)
  /\ calls' = << >>
  /\ UNCHANGED isOpen
  /\ UNCHANGED <<steps, timeUnit, code, parsed, raised, first, orig, edits, pc>>
  /\ UNCHANGED <<bitVars, textVars>>

\* setTimeUnit(pendingUnit) makes the parent hand the unit back as timeUnit,
\* and the effect on [isOpen, steps, timeUnit] regenerates the code
confirmChange ==
  /\ isOpen
  /\ IF pendingUnit # "null"
     THEN /\ timeUnit' = pendingUnit
          /\ calls' = << Call("setTimeUnit", pendingUnit), Call("onReset", "null") >>
          /\ pendingUnit' = "null"
          /\ code' = generateScenarioCode(steps, timeUnit')
     ELSE /\ calls' = << >>
          /\ UNCHANGED <<timeUnit, pendingUnit, code>>
  /\ lastOp' = Op("confirmChange", "null")
  /\ UNCHANGED isOpen
  /\ UNCHANGED <<steps, parsed, raised, first, orig, edits, pc>>
  /\ UNCHANGED <<bitVars, textVars>>

cancelChange ==
  /\ isOpen
  /\ pendingUnit' = "null"
  /\ lastOp' = Op("cancelChange", "null")
  /\ calls' = << >>
  /\ UNCHANGED isOpen
  /\ UNCHANGED <<steps, timeUnit, code, parsed, raised, first, orig, edits, pc>>
  /\ UNCHANGED <<bitVars, textVars>>

ModalNext ==
  \/ OpenModal
  \/ CloseModal
  \/ \E unit \in TimeUnits : handleUnitChange(unit)
  \/ confirmChange
  \/ cancelChange

SpecModal == ModalInit /\ [][ModalNext]_vars

----------------------------------------------------------------------------
(* Properties *)

CeilDiv(a, b) == (a + b - 1) \div b

\* the characters a token needs for n steps: 13 header bits, 14 per step
MinLength(n) == CeilDiv(13 + 14 * n, 6)

IsConfig(d) == d # NULL /\ d.kind = "config"

\* the fields of the first character of the cleaned token, read off the
\* character's index: version in bits 1-2, time unit in 3-4, count in 5-6
CleanCode == StripWhitespace(code)
HasHeader == Len(CleanCode) > 0 /\ IndexOf(CleanCode[1]) >= 0
HeaderVersion == IndexOf(CleanCode[1]) \div 16
HeaderUnit == (IndexOf(CleanCode[1]) \div 4) % 4
HeaderCount == IndexOf(CleanCode[1]) % 4

InRange(ss) ==
  /\ Len(ss) \in MIN_STEPS..MAX_STEPS
  /\ ss[1].batchSize <= 63
  /\ \A i \in 1..Len(ss) : ss[i].cycleTime <= 31 /\ ss[i].setupTime <= 127

SomeOutOfRange(ss) ==
  \/ Len(ss) > 0 /\ ss[1].batchSize > 63
  \/ \E i \in 1..Len(ss) : ss[i].cycleTime > 31 \/ ss[i].setupTime > 127

\* C1: decoding the code generated from 2..5 steps with every field within
\* its bit width gives back the time unit, the number of steps, every step's
\* cycle time, setup time and two locks, and the first step's batch size and
\* batch lock as the global ones.
C1_RoundTrip ==
  (pc = "decoded" /\ InRange(steps)) =>
    /\ IsConfig(parsed)
    /\ parsed.timeUnit = timeUnit
    /\ Len(parsed.steps) = Len(steps)
    /\ \A i \in 1..Len(steps) :
         /\ parsed.steps[i].cycleTime = steps[i].cycleTime
         /\ parsed.steps[i].setupTime = steps[i].setupTime
         /\ parsed.steps[i].isCycleLocked = steps[i].isCycleLocked
         /\ parsed.steps[i].isSetupLocked = steps[i].isSetupLocked
    /\ parsed.globalBatchSize = steps[1].batchSize
    /\ parsed.globalBatchLocked = steps[1].isBatchLocked

\* C2: for 2..5 steps of which some field is out of range, decoding the
\* generated code gives 31 for a cycle time above 31, 127 for a setup time
\* above 127, 63 for a first batch size above 63, and the original value of
\* every field that was in range.
C2_Clamping ==
  (pc = "decoded" /\ Len(steps) \in MIN_STEPS..MAX_STEPS /\ SomeOutOfRange(steps)) =>
    /\ IsConfig(parsed)
    /\ parsed.timeUnit = timeUnit
    /\ Len(parsed.steps) = Len(steps)
    /\ \A i \in 1..Len(steps) :
         /\ parsed.steps[i].cycleTime =
              (IF steps[i].cycleTime > 31 THEN 31 ELSE steps[i].cycleTime)
         /\ parsed.steps[i].setupTime =
              (IF steps[i].setupTime > 127 THEN 127 ELSE steps[i].setupTime)
         /\ parsed.steps[i].isCycleLocked = steps[i].isCycleLocked
         /\ parsed.steps[i].isSetupLocked = steps[i].isSetupLocked
    /\ parsed.globalBatchSize =
         (IF steps[1].batchSize > 63 THEN 63 ELSE steps[1].batchSize)
    /\ parsed.globalBatchLocked = steps[1].isBatchLocked

\* C3: whatever is in the input box, the parse raises nothing to its caller
\* and gives either null or a scenario with its time unit, global batch size,
\* global batch lock and at least as many step records as the count in the
\* header says.
C3_DecodeTotal ==
  /\ ~raised
  /\ \/ parsed = NULL
     \/ /\ IsConfig(parsed)
        /\ DOMAIN parsed =
             {"kind", "timeUnit", "globalBatchSize", "globalBatchLocked", "steps"}
        /\ parsed.timeUnit # "undefined"
        /\ parsed.globalBatchSize \in Nat
        /\ parsed.globalBatchLocked \in BOOLEAN
        /\ HasHeader
        /\ Len(parsed.steps) >= MIN_STEPS + HeaderCount

\* C3 witness: an edited token on which the body of parseScenarioCode threw,
\* and the caller got null.
C3_Witness ==
  pc = "input" /\ edits = 1 /\ parseTry(code).threw /\ parsed = NULL /\ ~raised

\* C4: a token whose first two bits are not the version 1 is rejected,
\* whatever follows.
C4_VersionGate ==
  (HasHeader /\ HeaderVersion # VERSION) => parsed = NULL

\* C4 witness: a full-length token of dictionary characters whose first
\* character was overwritten with version 0, 2 or 3.
C4_Witness ==
  /\ pc = "input" /\ edits = 1 /\ HasHeader /\ HeaderVersion # VERSION
  /\ Len(code) >= MinLength(MAX_STEPS)
  /\ \A i \in 1..Len(code) : code[i] \in CharSet
  /\ parsed = NULL

\* C5 as stated: a token with any character outside the dictionary, at any
\* position, is rejected.
C5_AlphabetRejection_AsStated ==
  (\E i \in 1..Len(code) : code[i] \notin CharSet) => parsed = NULL

\* C5: a token with a character that is neither whitespace nor in the
\* dictionary, at any position, is rejected.
C5_AlphabetRejection ==
  (\E i \in 1..Len(code) : code[i] \notin (CharSet \cup WhitespaceChars))
    => parsed = NULL

\* C5 witness: an accepted token with one character outside the dictionary
\* added after its last character, rejected.
C5_Witness ==
  /\ pc = "input" /\ Len(code) > 1
  /\ code[Len(code)] \notin (CharSet \cup WhitespaceChars)
  /\ IsConfig(parseScenarioCode(SubSeq(code, 1, Len(code) - 1)).value)
  /\ parsed = NULL

\* C6: once an accepted token of n steps is cut to a prefix of fewer than
\* ceil((13 + 14 n) / 6) characters, the parse gives null.
C6_Truncation ==
  (pc = "truncated" /\ IsConfig(parseScenarioCode(orig).value)) =>
    (Len(code) < MinLength(Len(parseScenarioCode(orig).value.steps))
       => parsed = NULL)

\* C6 witness: an accepted token longer than its minimum length, cut to one
\* character less than the minimum, rejected.
C6_Witness ==
  /\ pc = "truncated" /\ IsConfig(parseScenarioCode(orig).value)
  /\ Len(orig) > MinLength(Len(parseScenarioCode(orig).value.steps))
  /\ Len(code) = MinLength(Len(parseScenarioCode(orig).value.steps)) - 1
  /\ parsed = NULL

\* C7: encoding the first decoded scenario again and decoding that gives the
\* first decoded scenario.
C7_Idempotence ==
  pc = "redecoded" => (IsConfig(parsed) /\ parsed = first)

\* C7 witness: the second decode of an input of more than MAX_STEPS steps
\* with fields out of range.
C7_Witness ==
  /\ pc = "redecoded" /\ Len(steps) > MAX_STEPS /\ SomeOutOfRange(steps)
  /\ IsConfig(first) /\ parsed = first

\* C8: every scenario the parse gives has MIN_STEPS plus the header's count
\* field steps, which is within MIN_STEPS..MAX_STEPS, a time unit of the
\* three, a global batch size in 0..63 and every cycle time in 0..31 and
\* setup time in 0..127.
C8_DecodedRanges ==
  IsConfig(parsed) =>
    /\ Len(parsed.steps) \in MIN_STEPS..MAX_STEPS
    /\ HasHeader /\ Len(parsed.steps) = MIN_STEPS + HeaderCount
    /\ parsed.timeUnit \in TimeUnits
    /\ parsed.globalBatchSize \in 0..63
    /\ \A i \in 1..Len(parsed.steps) :
         /\ parsed.steps[i].cycleTime \in 0..31
         /\ parsed.steps[i].setupTime \in 0..127

\* C8 witness: a token whose header was overwritten is accepted with fewer
\* steps than were pasted, among them one at the largest cycle and setup time.
C8_Witness ==
  /\ IsConfig(parsed) /\ edits = 1
  /\ Len(parsed.steps) < Len(steps)
  /\ \E i \in 1..Len(parsed.steps) :
       parsed.steps[i].cycleTime = 31 /\ parsed.steps[i].setupTime = 127

\* C9: the generated code is made of dictionary characters only and has
\* ceil((13 + 14 n) / 6) characters, n being the number of steps clamped
\* into MIN_STEPS..MAX_STEPS.
C9_TokenFormat ==
  pc = "encoded" =>
    /\ \A i \in 1..Len(code) : code[i] \in CharSet
    /\ Len(code) = MinLength(clampedCount(steps))

\* C10: a version-1 token with time-unit field 3 is rejected; with field 0,
\* 1, 2 an accepted token has time unit Seconds, Minutes, Hours, which the
\* encoder maps back to the field.
C10_TimeUnitGate ==
  (HasHeader /\ HeaderVersion = VERSION) =>
    /\ HeaderUnit = 3 => parsed = NULL
    /\ (HeaderUnit \in 0..2 /\ IsConfig(parsed)) =>
         /\ parsed.timeUnit =
              (CASE HeaderUnit = 0 -> "Seconds"
                 [] HeaderUnit = 1 -> "Minutes"
                 [] HeaderUnit = 2 -> "Hours")
         /\ unitMap[parsed.timeUnit] = HeaderUnit

\* C10 witness: a full-length token of dictionary characters with version 1
\* and time-unit field 3, rejected.
C10_Witness ==
  /\ pc = "input" /\ edits = 1 /\ HasHeader
  /\ HeaderVersion = VERSION /\ HeaderUnit = 3
  /\ Len(code) >= MinLength(MIN_STEPS + HeaderCount)
  /\ \A i \in 1..Len(code) : code[i] \in CharSet
  /\ parsed = NULL

FieldsInRange(ss) ==
  /\ Len(ss) > 0 => ss[1].batchSize <= 63
  /\ \A i \in 1..Len(ss) : ss[i].cycleTime <= 31 /\ ss[i].setupTime <= 127

\* the number of 14-bit step records in the bits generateScenarioCode writes
RecordsWritten(ss, unit) == (Len(scenarioBits(ss, unit)) - 13) \div 14

\* C11: for a list of steps of any length with every field in range, the
\* generated code is accepted, the decoded scenario has the length clamped
\* into MIN_STEPS..MAX_STEPS as its number of steps, and the count in the
\* header is the number of step records in the token.
C11_StepCountClamping ==
  (pc = "decoded" /\ FieldsInRange(steps)) =>
    /\ IsConfig(parsed)
    /\ Len(parsed.steps) = clampedCount(steps)
    /\ HasHeader
    /\ MIN_STEPS + HeaderCount = RecordsWritten(steps, timeUnit)

RECURSIVE SumWidths(_, _)
\* the sum of the widths of the first k fields
SumWidths(fs, k) == IF k = 0 THEN 0 ELSE SumWidths(fs, k - 1) + fs[k].width

\* bit j (1 is the most significant) of the lowest width bits of value
BitOf(value, width, j) == (value \div 2 ^ (width - j)) % 2

\* C12: the writer holds exactly the sum of the widths in bits, field i being
\* the lowest width_i bits of value_i, most significant first; getData gives
\* these bits and leaves them in the writer; each read(width_i) gives value_i
\* mod 2^width_i and moves the cursor by width_i.
C12_BitFields ==
  /\ Len(wbits) = SumWidths(fields, Len(fields))
  /\ \A i \in 1..Len(fields) : \A j \in 1..fields[i].width :
       wbits[SumWidths(fields, i - 1) + j] = BitOf(fields[i].value, fields[i].width, j)
  /\ bpc = "reading" =>
       /\ rd.bits = wbits
       /\ rd.pointer = SumWidths(fields, Len(vals))
       /\ \A i \in 1..Len(vals) : vals[i] = fields[i].value % (2 ^ fields[i].width)

\* C12 witness: every field of a writer has been read back, one of them
\* written from a value wider than its width.
C12_Witness ==
  /\ bpc = "reading" /\ Len(fields) >= 2 /\ Len(vals) = Len(fields)
  /\ \E i \in 1..Len(fields) : fields[i].value >= 2 ^ fields[i].width
  /\ \E i \in 1..Len(fields) : fields[i].value < 2 ^ fields[i].width /\ fields[i].value > 0

\* b followed by zero bits up to the next multiple of 6
ZeroPadded(b) == b \o [i \in 1..((6 - (Len(b) % 6)) % 6) |-> 0]

\* C13: the text of a bit string b has ceil(len(b) / 6) characters and
\* decodes to b followed by zero bits up to the next multiple of 6; a text
\* over the dictionary, decoded and encoded again, is the same text.
C13_TextRoundTrip ==
  /\ tpc \in {"bitsText", "bitsDone"} => Len(tText) = CeilDiv(Len(tBinary), 6)
  /\ tpc = "bitsDone" =>
       /\ tOut = ZeroPadded(tBinary)
       /\ Len(tBinary) % 6 = 0 => tOut = tBinary
  /\ tpc = "charsBits" => Len(tBinary) = 6 * Len(tText)
  /\ tpc = "charsDone" => tOut = tText

\* C13 witness: a bit string of more than 6 bits that ends in a one and is
\* no multiple of 6 long has been encoded and decoded.
C13_Witness ==
  /\ tpc = "bitsDone" /\ Len(tBinary) > 6 /\ Len(tBinary) % 6 # 0
  /\ tBinary[Len(tBinary)] = 1
  /\ Len(tText) = 2 /\ Len(tOut) = 12

\* the code generated from the pasted scenario
PastedCode == generateScenarioCode(steps, timeUnit)

\* the bits of the last character of the input that lie after the last bit
\* the header's step count makes the parse read (6 or more: all of them)
PadBits == 6 * Len(code) - (13 + 14 * (MIN_STEPS + HeaderCount))

\* the input differs from the pasted code at most in those bits
OnlyPadBitsDiffer ==
  /\ Len(code) = Len(PastedCode) /\ Len(code) > 1
  /\ SubSeq(code, 1, Len(code) - 1) = SubSeq(PastedCode, 1, Len(code) - 1)
  /\ HasHeader /\ PadBits >= 0
  /\ IndexOf(code[Len(code)]) \div (2 ^ Min(PadBits, 6))
       = IndexOf(PastedCode[Len(code)]) \div (2 ^ Min(PadBits, 6))

\* C14: an accepted token followed by characters of the dictionary decodes
\* to the same scenario as the token alone, and a token whose last character
\* differs only in the bits after the last field decodes to the same scenario.
C14_TrailingIgnored ==
  /\ (pc = "appended" /\ IsConfig(parseScenarioCode(orig).value)) =>
       parsed = parseScenarioCode(orig).value
  /\ (pc = "input" /\ OnlyPadBitsDiffer /\ IsConfig(parseScenarioCode(PastedCode).value)) =>
       parsed = parseScenarioCode(PastedCode).value

\* C14 witness: a token of exactly its minimum length whose last character
\* was retyped with other pad bits, followed by two more characters, decodes
\* to the scenario of the pasted code.
C14_Witness ==
  /\ pc = "appended" /\ edits = 1 /\ Len(code) = Len(orig) + 2
  /\ orig # PastedCode /\ Len(orig) = MinLength(Len(steps))
  /\ IsConfig(parsed)
  /\ parsed = parseScenarioCode(PastedCode).value

\* C15: in every step, setTimeUnit is called only by confirmChange, with the
\* unit that was pending, followed by onReset, and the pending unit is then
\* cleared; handleUnitChange with the current unit leaves the pending unit as
\* it was; cancelChange clears it and calls neither setTimeUnit nor onReset.
C15_ConfirmGated ==
  [][ /\ (\E i \in 1..Len(calls') : calls'[i].fn \in {"setTimeUnit", "onReset"}) =>
           /\ lastOp'.op = "confirmChange"
           /\ pendingUnit # "null"
           /\ calls' = << Call("setTimeUnit", pendingUnit), Call("onReset", "null") >>
           /\ pendingUnit' = "null"
      /\ (lastOp'.op = "handleUnitChange" /\ lastOp'.arg = timeUnit) =>
           /\ pendingUnit' = pendingUnit
           /\ calls' = << >>
      /\ lastOp'.op = "cancelChange" =>
           /\ pendingUnit' = "null"
           /\ calls' = << >>
    ]_vars

\* C15 witness: confirmChange has just set a unit other than the initial one,
\* called onReset and cleared the pending unit.
C15_Witness ==
  /\ lastOp.op = "confirmChange"
  /\ calls = << Call("setTimeUnit", timeUnit), Call("onReset", "null") >>
  /\ timeUnit = "Hours"
  /\ pendingUnit = "null"

====
